---- MODULE Spec2Model ----
(***************************************************************************)
(* The ODBC storage backend of askar-storage (backend/odbc/mod.rs): the    *)
(* store's profile operations, the sessions' key resolution and the entry  *)
(* update protocol, over the four persisted tables.                        *)
(***************************************************************************)
EXTENDS Integers, Sequences, FiniteSets, Bags, TLC

\* Bounds of the model.
MaxOps == 2         \* entry operations started by the sessions
MaxStoreOps == 2    \* store operations started on the backend
PoolSize == 3       \* connections of the pool: one per session and one more
MaxProfiles == 11   \* profiles of the store list_profiles is called on
MaxFrames == 2      \* frames of close the stack of a task has room for

Sessions == {"s1", "s2"}
Tasks == {"t1", "t2"}
\* The names create_profile is called with (none: the random name "u1") and
\* those remove_profile is called with; "a" and "b" are the profiles of the
\* store at its opening.
CreateInputs == {<<>>, <<"a">>}
RemoveInputs == {"a", "u1"}
StoreKeys == {"sk0", "sk1"}
Kinds == {1, 2}
Categories == {"c1"}
EntryNames == {"n1"}
Tag1 == [name |-> "t1", value |-> "x", plaintext |-> TRUE]
Tag2 == [name |-> "t2", value |-> "y", plaintext |-> FALSE]
\* The (value, tags, expiry_ms) an Insert or a Replace is called with.
EntryInputs ==
    {[value |-> <<>>, tags |-> [some |-> FALSE, list |-> <<>>], expiry_ms |-> <<>>],
     [value |-> <<"v1">>, tags |-> [some |-> TRUE, list |-> <<Tag1>>], expiry_ms |-> <<1000>>],
     [value |-> <<"v1">>, tags |-> [some |-> TRUE, list |-> <<Tag1, Tag2>>], expiry_ms |-> <<>>]}
ProfileInputs == {<<>>, <<"b">>}

VARIABLES
    profiles,      \* table profiles(id, name unique, profile_key)
    nextPid,       \* the id the storage assigns to the next profiles row
    config,        \* table config: the rows 'key' and 'default_profile'
    items,         \* table items(id, profile_id, kind, category, name, value, expiry)
    nextItemId,    \* the id the storage assigns to the next items row
    items_tags,    \* table items_tags(item_id, name, value, plaintext), a bag of rows
    pool,          \* OdbcBackend.pool: the connections not checked out
    active_profile,\* OdbcBackend.active_profile
    key_cache,     \* OdbcBackend.key_cache: [store_key, profile_info]
    keygen,        \* number of profile keys generated so far (each one is fresh)
    sess,          \* the OdbcSession objects and the position of their update future
    task,          \* the futures of the store operations in flight
    inserted,      \* history: entries a completed Insert wrote, untouched since
    nOps,          \* entry operations started
    nStoreOps      \* store operations started

dbProfiles == <<profiles, nextPid, config>>
dbItems == <<items, nextItemId, items_tags>>
storeVars == <<pool, active_profile, key_cache, keygen>>
vars == <<profiles, nextPid, config, items, nextItemId, items_tags, pool,
          active_profile, key_cache, keygen, sess, task, inserted, nOps, nStoreOps>>

----------------------------------------------------------------------------
\* The collaborators: the profile key codec, the entry codec, the key cache.

\* encode_profile_key: the profile key wrapped under a store key.
encode_profile_key(profile_key, store_key) == [pk |-> profile_key, sk |-> store_key]

\* KeyCache::load_key: unwraps with the cache's store key, Crypto on a mismatch.
load_key(cache, enc_key) ==
    IF enc_key.sk = cache.store_key
    THEN [ok |-> TRUE, key |-> enc_key.pk]
    ELSE [ok |-> FALSE, key |-> 0]

\* KeyCache::get_profile
get_profile(cache, name) ==
    IF name \in DOMAIN cache.profile_info
    THEN <<cache.profile_info[name]>>
    ELSE <<>>

\* KeyCache::add_profile
add_profile(cache, name, pid, key) ==
    [cache EXCEPT !.profile_info =
        [n \in DOMAIN cache.profile_info \cup {name} |->
            IF n = name THEN [id |-> pid, key |-> key] ELSE cache.profile_info[n]]]

\* ProfileKey::encrypt_entry_category / encrypt_entry_name: deterministic.
encrypt_entry_category(key, category) == [k |-> key, f |-> "category", p |-> category]
encrypt_entry_name(key, name) == [k |-> key, f |-> "name", p |-> name]
\* ProfileKey::encrypt_entry_value: bound to the category and the name.
encrypt_entry_value(key, category, name, value) ==
    [k |-> key, c |-> category, n |-> name, p |-> value]
\* ProfileKey::encrypt_entry_tags: the name always, the value unless plaintext.
encrypt_entry_tag(key, t) ==
    [name |-> [k |-> key, p |-> t.name],
     value |-> IF t.plaintext THEN [k |-> 0, p |-> t.value] ELSE [k |-> key, p |-> t.value],
     plaintext |-> IF t.plaintext THEN 1 ELSE 0]
encrypt_entry_tags(key, list) == [i \in DOMAIN list |-> encrypt_entry_tag(key, list[i])]

\* Value::unwrap_or_default of the optional value of update.
unwrap_or_default(value) == IF value = <<>> THEN "" ELSE value[1]

\* The expiry string of update: empty when no expiry is given.
expiryStr(expiry_ms) == IF expiry_ms = <<>> THEN "" ELSE "now+ms"

----------------------------------------------------------------------------
\* The statements.

\* GET_PROFILE
GetProfile(name) == {r \in profiles : r.name = name}
\* GET_PROFILE_ID
GetProfileId(name, enc_key) == {r \in profiles : r.name = name /\ r.profile_key = enc_key}
\* GET_PROFILE_COUNT_FOR_NAME
GetProfileCountForName(name) == Cardinality({r \in profiles : r.name = name})
\* GET_ITEM_ID
GetItemId(pid, kind, category, name) ==
    {r \in items : r.profile_id = pid /\ r.kind = kind
                   /\ r.category = category /\ r.name = name}
\* The unique constraint of profiles(name).
ProfileNameTaken(name) == \E r \in profiles : r.name = name
\* The unique constraint of items(profile_id, kind, category, name).
ItemIdentityTaken(pid, kind, category, name) == GetItemId(pid, kind, category, name) # {}
\* DELETE_TAG, with the value bound to its parameter.
DeleteTag(tags, id) == [r \in {x \in DOMAIN tags : x.item_id # id} |-> tags[r]]
\* INSERT_TAG
InsertTag(tags, id, t) ==
    tags (+) SetToBag({[item_id |-> id, name |-> t.name, value |-> t.value,
                        plaintext |-> t.plaintext]})

----------------------------------------------------------------------------
\* OdbcSession

NoBlob == [pk |-> 0, sk |-> ""]
NoTags == [some |-> FALSE, list |-> <<>>]
NoFetch == [done |-> FALSE, some |-> FALSE, value |-> ""]
NoTask ==
    [pc |-> "idle", op |-> "none", name |-> "", profile_key |-> 0, enc_key |-> NoBlob,
     pid |-> 0, store_key |-> "", upd_keys |-> <<>>, ret |-> "none", names |-> <<>>]
NoSession ==
    [state |-> "none", profile |-> "", pc |-> "idle", op |-> "none", kind |-> 0,
     category |-> "", name |-> "", value |-> "", tags |-> NoTags, expiry |-> "",
     pid |-> 0, key |-> 0, enc_key |-> NoBlob, item_id |-> 0, todo |-> <<>>,
     result |-> "none", fetched |-> NoFetch, connection |-> FALSE, commit |-> FALSE,
     frames |-> 0]

\* The end of an operation: its locals are dropped.
Finish(r, res) ==
    [r EXCEPT !.pc = "idle", !.result = res, !.kind = 0, !.category = "", !.name = "",
              !.value = "", !.tags = NoTags, !.expiry = "", !.pid = 0, !.key = 0,
              !.enc_key = NoBlob, !.item_id = 0, !.todo = <<>>]
\* A panic unwinds the task that owns the session.
Panic(r) == [Finish(r, "Panic") EXCEPT !.state = "dead"]

\* The profiles of the store at its opening, wrapped under its store key.
InitialProfiles ==
    {[id |-> 1, name |-> "a", profile_key |-> encode_profile_key(1, "sk0")],
     [id |-> 2, name |-> "b", profile_key |-> encode_profile_key(2, "sk0")]}

Init ==
    /\ profiles = InitialProfiles
    /\ nextPid = 3
    /\ config = [key |-> "sk0", default_profile |-> "a"]
    /\ items = {}
    /\ nextItemId = 1
    /\ items_tags = EmptyBag
    /\ pool = PoolSize
    /\ active_profile = "a"
    /\ key_cache \in {[store_key |-> "sk0", profile_info |-> <<>>],
                      [store_key |-> "sk0", profile_info |-> [n \in {"a"} |-> [id |-> 1, key |-> 1]]]}
    /\ keygen = 2
    /\ sess = [s \in Sessions |-> NoSession]
    /\ task = [t \in Tasks |-> NoTask]
    /\ inserted = <<>>
    /\ nOps = 0
    /\ nStoreOps = 0

\* A slip of SessionChecksOut: the connection taken before the mode is looked at.
SessionChecksOutFirst(transaction) == TRUE

\* OdbcBackend::session: pool.get() is reached by a session that is not
\* transactional only.
SessionChecksOut(transaction) == ~transaction

\* OdbcBackend::session. The checkout waits for a connection of the pool.
Session(s, profile, transaction) ==
    /\ sess[s].state = "none"
    /\ SessionChecksOut(transaction) => pool > 0
    /\ pool' = IF SessionChecksOut(transaction) THEN pool - 1 ELSE pool
    /\ IF transaction
       THEN sess' = [sess EXCEPT ![s].result = "Unsupported"]
       ELSE sess' = [sess EXCEPT ![s] =
                [NoSession EXCEPT !.state = "open", !.connection = TRUE,
                    !.profile = IF profile = <<>> THEN active_profile ELSE profile[1]]]
    /\ UNCHANGED <<dbProfiles, dbItems, active_profile, key_cache, keygen,
                   task, inserted, nOps, nStoreOps>>

\* What the driver's execute hands back for a SELECT: a cursor, and for a query
\* that came back empty possibly none.
Cursors(rows) == IF rows = {} THEN {TRUE, FALSE} ELSE {TRUE}

\* OdbcSession::acquire_key: the cache lookup.
AcquireKeyCached(r) ==
    LET hit == get_profile(key_cache, r.profile) IN
    IF hit # <<>>
    THEN [r EXCEPT !.pc = "item", !.pid = hit[1].id, !.key = hit[1].key]
    ELSE [r EXCEPT !.pc = "read"]

\* OdbcSession::update: the arguments prepared, up to the cache lookup of
\* acquire_key, the first thing its future does.
Update(s, kind, operation, category, name, value, tags, expiry_ms) ==
    /\ sess[s].state = "open"
    /\ sess[s].pc = "idle"
    /\ nOps < MaxOps
    /\ nOps' = nOps + 1
    /\ sess' = [sess EXCEPT ![s] = AcquireKeyCached(
            [@ EXCEPT !.op = operation, !.kind = kind,
                      !.category = category, !.name = name,
                      !.value = IF operation = "Remove" THEN "" ELSE unwrap_or_default(value),
                      !.tags = IF operation = "Remove" THEN NoTags ELSE tags,
                      !.expiry = IF operation = "Remove" THEN "" ELSE expiryStr(expiry_ms),
                      !.result = "none", !.fetched = NoFetch])]
    /\ UNCHANGED <<dbProfiles, dbItems, storeVars, task, inserted, nStoreOps>>

\* OdbcSession::acquire_key: the profile row read on a cache miss.
AcquireKeyRead(s) ==
    /\ sess[s].pc = "read"
    /\ LET rows == GetProfile(sess[s].profile) IN
       \E cursor \in Cursors(rows) :
         sess' = [sess EXCEPT ![s] =
            IF ~cursor THEN Finish(@, "NotFound")
            ELSE IF rows = {} THEN Panic(@)
            ELSE LET row == CHOOSE r \in rows : TRUE IN
                 [@ EXCEPT !.pc = "load", !.pid = row.id, !.enc_key = row.profile_key]]
    /\ UNCHANGED <<dbProfiles, dbItems, storeVars, task, inserted, nOps, nStoreOps>>

\* A slip of LoadedPair: the id left at the 0 it was initialised with.
LoadedPairNoId(r, key) == [id |-> 0, key |-> key]

\* OdbcSession::acquire_key: the pair handed to add_profile, the id of the row
\* read and the key unwrapped.
LoadedPair(r, key) == [id |-> r.pid, key |-> key]

\* OdbcSession::acquire_key: load_key and add_profile.
AcquireKeyLoad(s) ==
    /\ sess[s].pc = "load"
    /\ LET k == load_key(key_cache, sess[s].enc_key)
           pair == LoadedPair(sess[s], k.key) IN
       IF k.ok
       THEN /\ key_cache' = add_profile(key_cache, sess[s].profile, pair.id, pair.key)
            /\ sess' = [sess EXCEPT ![s] = [@ EXCEPT !.pc = "item", !.key = k.key]]
       ELSE /\ key_cache' = key_cache
            /\ sess' = [sess EXCEPT ![s] = Finish(@, "Crypto")]
    /\ UNCHANGED <<dbProfiles, dbItems, pool, active_profile, keygen, task, inserted, nOps, nStoreOps>>

\* The encrypted fields of the update in flight.
EncCategory(r) == encrypt_entry_category(r.key, r.category)
EncName(r) == encrypt_entry_name(r.key, r.name)
EncValue(r) == encrypt_entry_value(r.key, r.category, r.name, r.value)
ItemRows(r) == GetItemId(r.pid, r.kind, EncCategory(r), EncName(r))
EntryId(r) == <<r.pid, r.kind, r.category, r.name>>

Forget(h, id) == [x \in DOMAIN h \ {id} |-> h[x]]
Note(h, id, v) == [x \in DOMAIN h \cup {id} |-> IF x = id THEN v ELSE h[x]]
\* The history at the end of an update: an Insert that came through is complete.
Completed(h, r) ==
    IF r.op = "Insert" /\ EntryId(r) \in DOMAIN h
    THEN Note(h, EntryId(r), [value |-> h[EntryId(r)].value, done |-> TRUE])
    ELSE h

\* The id the parameter of DELETE_TAG is bound to.
DeleteTagParameter(r) == r.pid

\* A slip of InsertItemFailed: the error of INSERT_ITEM dropped, the update goes on.
InsertItemFailedIgnored(r) ==
    IF r.tags.some THEN [r EXCEPT !.pc = "itemid"] ELSE Finish(r, "Ok")

\* update(Insert): the error of INSERT_ITEM is handed to the caller.
InsertItemFailed(r) == Finish(r, "Backend")

\* update(Insert): INSERT_ITEM or INSERT_ITEM_WITH_EXPIRY.
InsertItem(s) ==
    /\ sess[s].pc = "item"
    /\ sess[s].op = "Insert"
    /\ LET r == sess[s] IN
       IF ItemIdentityTaken(r.pid, r.kind, EncCategory(r), EncName(r))
       THEN /\ sess' = [sess EXCEPT ![s] = InsertItemFailed(@)]
            /\ UNCHANGED <<items, nextItemId, inserted>>
       ELSE /\ items' = items \cup
                    {[id |-> nextItemId, profile_id |-> r.pid, kind |-> r.kind,
                      category |-> EncCategory(r), name |-> EncName(r),
                      value |-> EncValue(r), expiry |-> r.expiry]}
            /\ nextItemId' = nextItemId + 1
            /\ LET h == Note(inserted, EntryId(r), [value |-> r.value, done |-> FALSE]) IN
               IF r.tags.some
               THEN /\ sess' = [sess EXCEPT ![s].pc = "itemid"]
                    /\ inserted' = h
               ELSE /\ sess' = [sess EXCEPT ![s] = Finish(@, "Ok")]
                    /\ inserted' = Completed(h, r)
    /\ UNCHANGED <<dbProfiles, items_tags, storeVars, task, nOps, nStoreOps>>

\* update(Replace): UPDATE_ITEM or UPDATE_ITEM_WITH_EXPIRY.
UpdateItem(s) ==
    /\ sess[s].pc = "item"
    /\ sess[s].op = "Replace"
    /\ LET r == sess[s] IN
       /\ items' = {IF x \in ItemRows(r)
                    THEN [x EXCEPT !.value = EncValue(r), !.expiry = r.expiry]
                    ELSE x : x \in items}
       /\ inserted' = Forget(inserted, EntryId(r))
    /\ sess' = [sess EXCEPT ![s].pc = "deltag"]
    /\ UNCHANGED <<dbProfiles, nextItemId, items_tags, storeVars, task, nOps, nStoreOps>>

\* update(Replace): DELETE_TAG.
DeleteTags(s) ==
    /\ sess[s].pc = "deltag"
    /\ LET r == sess[s] IN
       /\ items_tags' = DeleteTag(items_tags, DeleteTagParameter(r))
       /\ IF r.tags.some
          THEN sess' = [sess EXCEPT ![s].pc = "itemid"]
          ELSE sess' = [sess EXCEPT ![s] = Finish(@, "Ok")]
    /\ UNCHANGED <<dbProfiles, items, nextItemId, storeVars, task, inserted, nOps, nStoreOps>>

\* update(Insert|Replace): GET_ITEM_ID.
SelectItemId(s) ==
    /\ sess[s].pc = "itemid"
    /\ LET r == sess[s] IN
       IF ItemRows(r) = {}
       THEN /\ sess' = [sess EXCEPT ![s] = Panic(@)]
            /\ inserted' = inserted
       ELSE LET row == CHOOSE x \in ItemRows(r) : TRUE
                todo == encrypt_entry_tags(r.key, r.tags.list) IN
            IF todo = <<>>
            THEN /\ sess' = [sess EXCEPT ![s] = Finish(@, "Ok")]
                 /\ inserted' = Completed(inserted, r)
            ELSE /\ sess' = [sess EXCEPT ![s] =
                        [@ EXCEPT !.pc = "tag", !.item_id = row.id, !.todo = todo]]
                 /\ inserted' = inserted
    /\ UNCHANGED <<dbProfiles, dbItems, storeVars, task, nOps, nStoreOps>>

\* update(Insert|Replace): one INSERT_TAG of the loop.
InsertTagRow(s) ==
    /\ sess[s].pc = "tag"
    /\ LET r == sess[s] IN
       /\ items_tags' = InsertTag(items_tags, r.item_id, Head(r.todo))
       /\ IF Tail(r.todo) = <<>>
          THEN /\ sess' = [sess EXCEPT ![s] = Finish(@, "Ok")]
               /\ inserted' = Completed(inserted, r)
          ELSE /\ sess' = [sess EXCEPT ![s].todo = Tail(r.todo)]
               /\ inserted' = inserted
    /\ UNCHANGED <<dbProfiles, items, nextItemId, storeVars, task, nOps, nStoreOps>>

\* A slip of RemoveResult: a DELETE_ITEM that deleted nothing reported as NotFound.
RemoveResultStrict(rows) == IF rows = {} THEN "NotFound" ELSE "Ok"

\* What update(Remove) returns once DELETE_ITEM has run on `rows`.
RemoveResult(rows) == "Ok"

\* update(Remove): DELETE_ITEM.
DeleteItem(s) ==
    /\ sess[s].pc = "item"
    /\ sess[s].op = "Remove"
    /\ LET r == sess[s] IN
       /\ items' = items \ ItemRows(r)
       /\ inserted' = Forget(inserted, EntryId(r))
       /\ sess' = [sess EXCEPT ![s] = Finish(@, RemoveResult(ItemRows(r)))]
    /\ UNCHANGED <<dbProfiles, nextItemId, items_tags, storeVars, task, nOps, nStoreOps>>

\* OdbcSession::fetch, up to the future it returns.
Fetch(s, kind, category, name) ==
    /\ sess[s].state = "open"
    /\ sess[s].pc = "idle"
    /\ nOps < MaxOps
    /\ nOps' = nOps + 1
    /\ sess' = [sess EXCEPT ![s] =
            [@ EXCEPT !.pc = "fetch", !.op = "Fetch", !.kind = kind, !.category = category,
                      !.name = name, !.result = "none", !.fetched = NoFetch]]
    /\ UNCHANGED <<dbProfiles, dbItems, storeVars, task, inserted, nStoreOps>>

\* What the future of fetch yields.
FetchResult(r) == [done |-> TRUE, some |-> FALSE, value |-> ""]

\* OdbcSession::fetch: its future.
FetchDone(s) ==
    /\ sess[s].pc = "fetch"
    /\ sess' = [sess EXCEPT ![s] =
            [@ EXCEPT !.pc = "idle", !.result = "Ok", !.fetched = FetchResult(@)]]
    /\ UNCHANGED <<dbProfiles, dbItems, storeVars, task, inserted, nOps, nStoreOps>>

\* A call of one of the operations of the session that are placeholders, up to
\* the future it returns.
Call(s, op) ==
    /\ sess[s].state = "open"
    /\ sess[s].pc = "idle"
    /\ nOps < MaxOps
    /\ nOps' = nOps + 1
    /\ sess' = [sess EXCEPT ![s] =
            [@ EXCEPT !.pc = "stub", !.op = op, !.result = "none", !.fetched = NoFetch]]
    /\ UNCHANGED <<dbProfiles, dbItems, storeVars, task, inserted, nStoreOps>>

\* OdbcSession::count
Count(s) == Call(s, "Count")
\* OdbcSession::fetch_all
FetchAll(s) == Call(s, "FetchAll")
\* OdbcSession::remove_all
RemoveAll(s) == Call(s, "RemoveAll")
\* OdbcSession::ping
Ping(s) == Call(s, "Ping")

\* What the futures of the placeholders yield: count Ok(5), ping Ok(()), the
\* others Unsupported.
StubResult(op) == IF op \in {"Count", "Ping"} THEN "Ok" ELSE "Unsupported"

\* The future of a placeholder.
StubDone(s) ==
    /\ sess[s].pc = "stub"
    /\ sess' = [sess EXCEPT ![s] = Finish(@, StubResult(@.op))]
    /\ UNCHANGED <<dbProfiles, dbItems, storeVars, task, inserted, nOps, nStoreOps>>

\* OdbcSession::close: the call, which before anything else calls close.
Close(s, commit) ==
    /\ sess[s].state = "open"
    /\ sess[s].pc = "idle"
    /\ sess' = [sess EXCEPT ![s] =
            [@ EXCEPT !.pc = "close", !.op = "Close", !.commit = commit, !.frames = 1,
                      !.result = "none", !.fetched = NoFetch]]
    /\ UNCHANGED <<dbProfiles, dbItems, storeVars, task, inserted, nOps, nStoreOps>>

\* The process ended by a stack overflow: none of its sessions takes a step
\* any more, whatever it was doing.
Aborted(r) == [r EXCEPT !.state = "aborted", !.pc = "aborted"]

\* OdbcSession::close: self.close(commit), the call of close by close, with the
\* same session and the same commit. A call the stack has no room for ends the
\* process.
CloseRecurse(s) ==
    /\ sess[s].pc = "close"
    /\ IF sess[s].frames < MaxFrames
       THEN sess' = [sess EXCEPT ![s].frames = @ + 1]
       ELSE sess' = [x \in Sessions |-> Aborted(sess[x])]
    /\ UNCHANGED <<dbProfiles, dbItems, storeVars, task, inserted, nOps, nStoreOps>>

\* The session dropped by its owner: its PooledConnection goes back to the pool.
Drop(s) ==
    /\ sess[s].state \in {"open", "dead"}
    /\ sess[s].pc = "idle"
    /\ sess' = [sess EXCEPT ![s] = NoSession]
    /\ pool' = pool + 1
    /\ UNCHANGED <<dbProfiles, dbItems, active_profile, key_cache, keygen,
                   task, inserted, nOps, nStoreOps>>

----------------------------------------------------------------------------
\* OdbcBackend

\* The end of a store operation: its locals are dropped.
Return(r, ret) ==
    [r EXCEPT !.pc = "idle", !.ret = ret, !.profile_key = 0, !.enc_key = NoBlob,
              !.pid = 0, !.store_key = "", !.upd_keys = <<>>]

\* rekey borrows the backend mutably: no other operation of the backend is in
\* flight while its future lives.
Borrowed == \E t \in Tasks : task[t].pc # "idle" /\ task[t].op = "rekey"
InFlight == \E t \in Tasks : task[t].pc # "idle"

\* random_profile_name: a name no profile has and no other call was given.
random_profile_name == "u1"
RandomNameFresh ==
    /\ ~ProfileNameTaken(random_profile_name)
    /\ \A t \in Tasks : task[t].pc = "idle" \/ task[t].name # random_profile_name

\* create_profile: the name, the new profile key and its wrapping.
CreateProfile(t, name) ==
    /\ task[t].pc = "idle"
    /\ ~Borrowed
    /\ name = <<>> => RandomNameFresh
    /\ nStoreOps < MaxStoreOps
    /\ nStoreOps' = nStoreOps + 1
    /\ keygen' = keygen + 1
    /\ task' = [task EXCEPT ![t] =
            [NoTask EXCEPT !.pc = "insert", !.op = "create_profile",
                !.name = IF name = <<>> THEN random_profile_name ELSE name[1],
                !.profile_key = keygen + 1,
                !.enc_key = encode_profile_key(keygen + 1, key_cache.store_key)]]
    /\ UNCHANGED <<dbProfiles, dbItems, pool, active_profile, key_cache, sess, inserted, nOps>>

\* A slip of InsertProfileFailed: the error of INSERT_PROFILE dropped, the
\* operation goes on to cache its key.
InsertProfileFailedIgnored(r) ==
    [r EXCEPT !.pc = "cache", !.pid = (CHOOSE x \in GetProfile(r.name) : TRUE).id]

\* create_profile: the error of INSERT_PROFILE is handed to the caller.
InsertProfileFailed(r) == Return(r, "Backend")

\* create_profile: INSERT_PROFILE.
InsertProfile(t) ==
    /\ task[t].pc = "insert"
    /\ LET r == task[t] IN
       IF ProfileNameTaken(r.name)
       THEN /\ task' = [task EXCEPT ![t] = InsertProfileFailed(@)]
            /\ UNCHANGED <<profiles, nextPid>>
       ELSE /\ profiles' = profiles \cup
                    {[id |-> nextPid, name |-> r.name, profile_key |-> r.enc_key]}
            /\ nextPid' = nextPid + 1
            /\ task' = [task EXCEPT ![t].pc = "getid"]
    /\ UNCHANGED <<config, dbItems, storeVars, sess, inserted, nOps, nStoreOps>>

\* create_profile: GET_PROFILE_ID.
SelectProfileId(t) ==
    /\ task[t].pc = "getid"
    /\ LET r == task[t]
           rows == GetProfileId(r.name, r.enc_key) IN
       task' = [task EXCEPT ![t] =
            IF rows = {} THEN Return(@, "Panic")
            ELSE [@ EXCEPT !.pc = "cache", !.pid = (CHOOSE x \in rows : TRUE).id]]
    /\ UNCHANGED <<dbProfiles, dbItems, storeVars, sess, inserted, nOps, nStoreOps>>

\* create_profile: add_profile.
CacheProfile(t) ==
    /\ task[t].pc = "cache"
    /\ LET r == task[t] IN
       /\ key_cache' = add_profile(key_cache, r.name, r.pid, r.profile_key)
       /\ task' = [task EXCEPT ![t] = Return(@, "Ok")]
    /\ UNCHANGED <<dbProfiles, dbItems, pool, active_profile, keygen, sess, inserted, nOps, nStoreOps>>

\* A slip of ProfileExists: the comparison off by one.
ProfileExistsLoose(count) == count >= 0

\* remove_profile: whether the profile is deleted, from the count of its rows.
ProfileExists(count) == count > 0

\* remove_profile, up to the future it returns.
RemoveProfile(t, name) ==
    /\ task[t].pc = "idle"
    /\ ~Borrowed
    /\ nStoreOps < MaxStoreOps
    /\ nStoreOps' = nStoreOps + 1
    /\ task' = [task EXCEPT ![t] =
            [NoTask EXCEPT !.pc = "count", !.op = "remove_profile", !.name = name]]
    /\ UNCHANGED <<dbProfiles, dbItems, storeVars, sess, inserted, nOps>>

\* remove_profile: GET_PROFILE_COUNT_FOR_NAME.
CountProfile(t) ==
    /\ task[t].pc = "count"
    /\ task' = [task EXCEPT ![t] =
            IF ProfileExists(GetProfileCountForName(task[t].name))
            THEN [@ EXCEPT !.pc = "delete"]
            ELSE Return(@, "false")]
    /\ UNCHANGED <<dbProfiles, dbItems, storeVars, sess, inserted, nOps, nStoreOps>>

\* remove_profile: DELETE_PROFILE.
DeleteProfile(t) ==
    /\ task[t].pc = "delete"
    /\ profiles' = {r \in profiles : r.name # task[t].name}
    /\ task' = [task EXCEPT ![t] = Return(@, "true")]
    /\ UNCHANGED <<nextPid, config, dbItems, storeVars, sess, inserted, nOps, nStoreOps>>

\* The rows of a set of profiles in the order of their ids, as rekey's BTreeMap
\* hands them out.
RECURSIVE ById(_)
ById(rows) ==
    IF rows = {} THEN <<>>
    ELSE LET first == CHOOSE r \in rows : \A x \in rows : r.id <= x.id IN
         <<[id |-> first.id, key |-> first.profile_key]>> \o ById(rows \ {first})

\* rekey: the new store key, the connection it keeps (binding), and
\* GET_PROFILES into upd_keys.
Rekey(t, store_key) ==
    /\ task[t].pc = "idle"
    /\ ~InFlight
    /\ nStoreOps < MaxStoreOps
    /\ nStoreOps' = nStoreOps + 1
    /\ pool > 0
    /\ pool' = pool - 1
    /\ task' = [task EXCEPT ![t] =
            [NoTask EXCEPT !.pc = "loop", !.op = "rekey", !.store_key = store_key,
                           !.upd_keys = ById(profiles)]]
    /\ UNCHANGED <<dbProfiles, dbItems, active_profile, key_cache, keygen,
                   sess, inserted, nOps>>

\* rekey: method.resolve(pass_key) fails, and its error is handed to the caller
\* before the backend is touched.
RekeyResolveFails(t) ==
    /\ task[t].pc = "idle"
    /\ ~InFlight
    /\ nStoreOps < MaxStoreOps
    /\ nStoreOps' = nStoreOps + 1
    /\ task' = [task EXCEPT ![t] = [NoTask EXCEPT !.op = "rekey", !.ret = "Encryption"]]
    /\ UNCHANGED <<dbProfiles, dbItems, storeVars, sess, inserted, nOps>>

\* The connection of rekey goes back to the pool when its future ends.
Unbind(r) == IF r.pc = "idle" THEN pool + 1 ELSE pool

\* rekey: one turn of the loop over upd_keys: load_key, encode_profile_key,
\* UPDATE_PROFILE.
RekeyProfile(t) ==
    /\ task[t].pc = "loop"
    /\ task[t].upd_keys # <<>>
    /\ LET r == task[t]
           e == Head(r.upd_keys)
           k == load_key(key_cache, e.key) IN
       IF k.ok
       THEN /\ profiles' = {IF x.id = e.id
                            THEN [x EXCEPT !.profile_key = encode_profile_key(k.key, r.store_key)]
                            ELSE x : x \in profiles}
            /\ task' = [task EXCEPT ![t].upd_keys = Tail(r.upd_keys)]
       ELSE /\ profiles' = profiles
            /\ task' = [task EXCEPT ![t] = Return(@, "Crypto")]
    /\ pool' = Unbind(task'[t])
    /\ UNCHANGED <<nextPid, config, dbItems, active_profile, key_cache, keygen,
                   sess, inserted, nOps, nStoreOps>>

\* A slip of UpdateProfileFailed: the error of UPDATE_PROFILE dropped, the loop
\* goes on to the next profile.
UpdateProfileFailedIgnored(r) == [r EXCEPT !.upd_keys = Tail(@)]

\* rekey: the error of UPDATE_PROFILE is handed to the caller.
UpdateProfileFailed(r) == Return(r, "Backend")

\* rekey: one turn of the loop whose UPDATE_PROFILE the storage fails.
RekeyProfileFails(t) ==
    /\ task[t].pc = "loop"
    /\ task[t].upd_keys # <<>>
    /\ load_key(key_cache, Head(task[t].upd_keys).key).ok
    /\ task' = [task EXCEPT ![t] = UpdateProfileFailed(@)]
    /\ pool' = Unbind(task'[t])
    /\ UNCHANGED <<dbProfiles, dbItems, active_profile, key_cache, keygen,
                   sess, inserted, nOps, nStoreOps>>

\* rekey: UPDATE_CONFIG_KEY, past the loop.
UpdateConfigKey(t) ==
    /\ task[t].pc = "loop"
    /\ task[t].upd_keys = <<>>
    /\ config' = [config EXCEPT !.key = task[t].store_key]
    /\ task' = [task EXCEPT ![t] = Return(@, "Ok")]
    /\ pool' = Unbind(task'[t])
    /\ UNCHANGED <<profiles, nextPid, dbItems, active_profile, key_cache, keygen,
                   sess, inserted, nOps, nStoreOps>>

\* The rows of the row set buffer list_profiles binds to its cursor.
BatchSize == 10

\* The names of a set of profiles in the storage's order, that of their ids.
RECURSIVE NamesById(_)
NamesById(rows) ==
    IF rows = {} THEN <<>>
    ELSE LET first == CHOOSE r \in rows : \A x \in rows : r.id <= x.id IN
         <<first.name>> \o NamesById(rows \ {first})

\* BlockCursor::fetch: the next row set, at most as many rows as the buffer has.
FetchBatch(rows) ==
    SubSeq(rows, 1, IF Len(rows) < BatchSize THEN Len(rows) ELSE BatchSize)

\* list_profiles, up to the future it returns.
ListProfiles(t) ==
    /\ task[t].pc = "idle"
    /\ ~Borrowed
    /\ nStoreOps < MaxStoreOps
    /\ nStoreOps' = nStoreOps + 1
    /\ task' = [task EXCEPT ![t] = [NoTask EXCEPT !.pc = "names", !.op = "list_profiles"]]
    /\ UNCHANGED <<dbProfiles, dbItems, storeVars, sess, inserted, nOps>>

\* list_profiles: GET_PROFILE_NAMES, the one fetch of its cursor and the loop over
\* the batch. A result without rows has no row set (or no cursor): the unwrap
\* of it panics.
FetchNames(t) ==
    /\ task[t].pc = "names"
    /\ LET rows == NamesById(profiles) IN
       task' = [task EXCEPT ![t] =
            IF rows = <<>> THEN Return(@, "Panic")
            ELSE [Return(@, "Ok") EXCEPT !.names = FetchBatch(rows)]]
    /\ UNCHANGED <<dbProfiles, dbItems, storeVars, sess, inserted, nOps, nStoreOps>>

StoreStep(t) ==
    \/ \E n \in CreateInputs : CreateProfile(t, n)
    \/ InsertProfile(t)
    \/ SelectProfileId(t)
    \/ CacheProfile(t)
    \/ \E n \in RemoveInputs : RemoveProfile(t, n)
    \/ CountProfile(t)
    \/ DeleteProfile(t)
    \/ \E k \in StoreKeys : Rekey(t, k)
    \/ RekeyProfile(t)
    \/ UpdateConfigKey(t)

\* A session that resolves its profile's key: update(Remove) is the shortest
\* of the operations that call acquire_key.
ResolveStep(s) ==
    \/ \E p \in ProfileInputs, t \in BOOLEAN : Session(s, p, t)
    \/ \E k \in {1}, c \in Categories, n \in EntryNames :
            Update(s, k, "Remove", c, n, <<>>, NoTags, <<>>)
    \/ AcquireKeyRead(s)
    \/ AcquireKeyLoad(s)
    \/ DeleteItem(s)

SessionStep(s) ==
    \/ \E p \in ProfileInputs, t \in BOOLEAN : Session(s, p, t)
    \/ \E k \in Kinds, c \in Categories, n \in EntryNames, e \in EntryInputs :
            \/ Update(s, k, "Insert", c, n, e.value, e.tags, e.expiry_ms)
            \/ Update(s, k, "Replace", c, n, e.value, e.tags, e.expiry_ms)
    \/ \E k \in Kinds, c \in Categories, n \in EntryNames :
            \/ Update(s, k, "Remove", c, n, <<>>, NoTags, <<>>)
            \/ Fetch(s, k, c, n)
    \/ FetchDone(s)
    \/ AcquireKeyRead(s)
    \/ AcquireKeyLoad(s)
    \/ InsertItem(s)
    \/ UpdateItem(s)
    \/ DeleteTags(s)
    \/ SelectItemId(s)
    \/ InsertTagRow(s)
    \/ DeleteItem(s)

\* The steps the executor takes for session s once an operation is called.
Progress(s) ==
    \/ AcquireKeyRead(s)
    \/ AcquireKeyLoad(s)
    \/ DeleteItem(s)
    \/ FetchDone(s)
    \/ StubDone(s)
    \/ CloseRecurse(s)

\* The life of a session: opened, used, closed or dropped.
LifeStep(s) ==
    \/ \E p \in ProfileInputs, t \in BOOLEAN : Session(s, p, t)
    \/ \E k \in {1}, c \in Categories, n \in EntryNames :
            \/ Update(s, k, "Remove", c, n, <<>>, NoTags, <<>>)
            \/ Fetch(s, k, c, n)
    \/ Count(s)
    \/ FetchAll(s)
    \/ RemoveAll(s)
    \/ Ping(s)
    \/ \E commit \in BOOLEAN : Close(s, commit)
    \/ Drop(s)
    \/ Progress(s)

NextSessions == \E s \in Sessions : LifeStep(s)

\* A call that was made runs on: the executor polls its future, and close is
\* plain code of the calling thread.
SpecSessions ==
    /\ Init
    /\ [][NextSessions]_vars
    /\ \A s \in Sessions : WF_vars(Progress(s))

NextEntries == \E s \in Sessions : SessionStep(s)

SpecEntries == Init /\ [][NextEntries]_vars

\* rekey on a storage that may fail, beside sessions that resolve their keys.
RekeyStep(t) ==
    \/ \E k \in StoreKeys : Rekey(t, k)
    \/ RekeyResolveFails(t)
    \/ RekeyProfile(t)
    \/ RekeyProfileFails(t)
    \/ UpdateConfigKey(t)

NextRekey == (\E t \in Tasks : RekeyStep(t)) \/ (\E s \in Sessions : ResolveStep(s))

SpecRekey == Init /\ [][NextRekey]_vars

\* A store opened on a database of n profiles.
NameOf(i) == IF i = 1 THEN "a" ELSE IF i = 2 THEN "b" ELSE "p" \o ToString(i)
ProfilesUpTo(n) ==
    {[id |-> i, name |-> NameOf(i), profile_key |-> encode_profile_key(i, "sk0")] : i \in 1..n}

InitList ==
    /\ \E n \in 0..MaxProfiles :
        /\ profiles = ProfilesUpTo(n)
        /\ nextPid = n + 1
        /\ keygen = n
    /\ config = [key |-> "sk0", default_profile |-> "a"]
    /\ items = {}
    /\ nextItemId = 1
    /\ items_tags = EmptyBag
    /\ pool = PoolSize
    /\ active_profile = "a"
    /\ key_cache = [store_key |-> "sk0", profile_info |-> <<>>]
    /\ sess = [s \in Sessions |-> NoSession]
    /\ task = [t \in Tasks |-> NoTask]
    /\ inserted = <<>>
    /\ nOps = 0
    /\ nStoreOps = 0

NextList == \E t \in Tasks : ListProfiles(t) \/ FetchNames(t)

SpecList == InitList /\ [][NextList]_vars

NextStore == (\E t \in Tasks : StoreStep(t)) \/ (\E s \in Sessions : ResolveStep(s))

Spec == Init /\ [][NextStore]_vars

----------------------------------------------------------------------------
\* Entries (SpecEntries).

\* The rows of items_tags attached to an item.
TagRowsOf(tags, id) == [r \in {x \in DOMAIN tags : x.item_id = id} |-> tags[r]]
\* The rows a tag list makes for an item.
RECURSIVE TagBag(_, _)
TagBag(id, list) ==
    IF list = <<>> THEN EmptyBag ELSE InsertTag(TagBag(id, Tail(list)), id, Head(list))
\* The id of the profile a session is bound to.
ProfileIdOf(name) == {r.id : r \in GetProfile(name)}
\* Session s takes a step of its operation.
Steps(s) == sess'[s] # sess[s]
\* Session s starts an update with this step.
Starts(s) == sess[s].pc = "idle" /\ sess'[s].pc \in {"item", "read"}
\* Session s ends its update, the key resolved, with this step.
Ends(s, op) ==
    /\ sess[s].op = op
    /\ sess[s].pc \in {"item", "deltag", "itemid", "tag"}
    /\ sess'[s].pc = "idle"

\* C1: after an Insert of (kind, category, name, value) came through in a profile,
\* a fetch of (kind, category, name) in that profile, with no Remove or Replace
\* of the entry in between, returns an entry with that value.
C1_FetchReturnsInserted ==
    [][\A s \in Sessions :
        (sess[s].pc = "fetch" /\ Steps(s))
        => \A pid \in ProfileIdOf(sess[s].profile) :
            LET id == <<pid, sess[s].kind, sess[s].category, sess[s].name>> IN
            (id \in DOMAIN inserted /\ inserted[id].done)
            => /\ sess'[s].fetched.some
               /\ sess'[s].fetched.value = inserted[id].value]_vars

\* C2: when a Replace of an existing entry with the tag set T completes, the tag
\* rows attached to the entry's item row are exactly T, none when no tags are
\* given.
C2_ReplaceDiscardsPriorTags ==
    [][\A s \in Sessions :
        (Ends(s, "Replace") /\ sess'[s].result = "Ok")
        => \A row \in ItemRows(sess[s]) :
            TagRowsOf(items_tags', row.id)
                = TagBag(row.id, encrypt_entry_tags(sess[s].key, sess[s].tags.list))]_vars

\* C3: a Replace, its key resolved, completes with success and leaves exactly one
\* item row of its identity, which holds the supplied value and tags, whether the
\* entry existed before or not.
C3_ReplaceUpserts ==
    [][\A s \in Sessions :
        Ends(s, "Replace")
        => LET r == sess[s]
               rows == {x \in items' : /\ x.profile_id = r.pid /\ x.kind = r.kind
                                       /\ x.category = EncCategory(r)
                                       /\ x.name = EncName(r)} IN
           /\ sess'[s].result = "Ok"
           /\ Cardinality(rows) = 1
           /\ \A x \in rows :
                /\ x.value = EncValue(r)
                /\ TagRowsOf(items_tags', x.id)
                     = TagBag(x.id, encrypt_entry_tags(r.key, r.tags.list))]_vars

\* C4: an Insert whose identity tuple already has an item row fails with an error
\* and writes nothing: the items and items_tags tables are as before.
C4_InsertOfExistingFails ==
    [][\A s \in Sessions :
        (/\ sess[s].pc = "item" /\ sess[s].op = "Insert" /\ Steps(s)
         /\ ItemRows(sess[s]) # {})
        => /\ sess'[s].pc = "idle"
           /\ sess'[s].result = "Backend"
           /\ items' = items
           /\ items_tags' = items_tags]_vars

\* C4's case: an Insert has been refused.
C4_Witness == \E s \in Sessions : sess[s].op = "Insert" /\ sess[s].result = "Backend"

\* C5: a Remove whose entry has no item row returns success and leaves the items
\* and items_tags tables as they were.
C5_RemoveOfMissingSucceeds ==
    [][\A s \in Sessions :
        (/\ sess[s].pc = "item" /\ sess[s].op = "Remove" /\ Steps(s)
         /\ ItemRows(sess[s]) = {})
        => /\ sess'[s].pc = "idle"
           /\ sess'[s].result = "Ok"
           /\ items' = items
           /\ items_tags' = items_tags]_vars

\* C5's case: a Remove has returned success in a store that never held an item.
C5_Witness ==
    \E s \in Sessions :
        /\ sess[s].op = "Remove" /\ sess[s].pc = "idle" /\ sess[s].result = "Ok"
        /\ nextItemId = 1

\* Session s holds the (profile id, profile key) pair of its profile.
Resolved(s) == sess[s].pc \in {"item", "deltag", "itemid", "tag"}
\* Session s got its pair from the profiles table, after a miss of the cache.
ResolvedByRead(s) == Resolved(s) /\ sess[s].enc_key # NoBlob

\* C13: sessions that resolve the same profile hold the same (id, key) pair,
\* whatever the interleaving of their lookups, reads and inserts, and the key
\* cache has one entry of that name, equal to the pair.
C13_ConcurrentResolutionAgrees ==
    \A s \in Sessions :
        Resolved(s)
        => /\ get_profile(key_cache, sess[s].profile)
                = <<[id |-> sess[s].pid, key |-> sess[s].key]>>
           /\ \A s2 \in Sessions :
                (Resolved(s2) /\ sess[s2].profile = sess[s].profile)
                => sess[s2].pid = sess[s].pid /\ sess[s2].key = sess[s].key

\* C13's case: two sessions have both missed the cache on the same profile and
\* both have read, unwrapped and cached its key.
C13_Witness ==
    \E s \in Sessions, s2 \in Sessions :
        /\ s # s2
        /\ sess[s].profile = sess[s2].profile
        /\ ResolvedByRead(s) /\ ResolvedByRead(s2)

\* C19: when no update is in flight, every row of items_tags is attached to an
\* item row that exists; none is left of an entry that was removed.
C19_NoOrphanTags ==
    (\A s \in Sessions : sess[s].pc = "idle")
    => \A x \in BagToSet(items_tags) : \E row \in items : row.id = x.item_id

\* What a reader of the item row `id` gets: its value and its tag rows.
EntryView(rows, tags, id) ==
    <<(CHOOSE x \in rows : x.id = id).value, TagRowsOf(tags, id)>>

\* C20: a storage step of a Replace of an existing entry leaves to a reader
\* the entry as it was or makes it the complete new entry, value and tag set
\* together: no step shows the new value with other tags than the new ones.
C20_ReplaceAtomic ==
    [][\A s \in Sessions :
        (sess[s].op = "Replace" /\ Resolved(s) /\ Steps(s))
        => \A row \in ItemRows(sess[s]) :
            \/ EntryView(items', items_tags', row.id) = EntryView(items, items_tags, row.id)
            \/ EntryView(items', items_tags', row.id)
                  = <<EncValue(sess[s]),
                      TagBag(row.id, encrypt_entry_tags(sess[s].key, sess[s].tags.list))>>]_vars

\* C22: a storage step of an update on an entry leaves the item row and the
\* tag rows of every other entry, of its profile or of another, as they were.
C22_UpdateTouchesOnlyItsEntry ==
    [][\A s \in Sessions :
        (Resolved(s) /\ Steps(s))
        => \A row \in items \ ItemRows(sess[s]) :
            /\ row \in items'
            /\ TagRowsOf(items_tags', row.id) = TagRowsOf(items_tags, row.id)]_vars

----------------------------------------------------------------------------
\* Profiles and keys (Spec).

RekeyDone == \E t \in Tasks : task[t].op = "rekey" /\ task[t].pc = "idle" /\ task[t].ret = "Ok"
RekeyInProgress == \E t \in Tasks : task[t].op = "rekey" /\ task[t].pc # "idle"

\* C6: once a rekey has completed, a session that unwraps the row, as it is then
\* persisted, of a profile that existed before the rekey does not fail with
\* Crypto and obtains the profile's original key.
C6_ProfilesResolveAfterRekey ==
    [][\A s \in Sessions :
        (/\ RekeyDone
         /\ sess[s].pc = "load" /\ Steps(s)
         /\ \E p \in InitialProfiles : p.id = sess[s].pid
         /\ \E row \in profiles : row.id = sess[s].pid /\ row.profile_key = sess[s].enc_key)
        => /\ sess'[s].result # "Crypto"
           /\ \A p \in InitialProfiles :
                p.id = sess[s].pid => sess'[s].key = p.profile_key.pk]_vars

\* C7: whenever no rekey is in progress, every profile row's encrypted key is
\* wrapped under the store key the config 'key' row names.
C7_RowsWrappedUnderRecordedKey ==
    ~RekeyInProgress => \A row \in profiles : row.profile_key.sk = config.key

\* A remove_profile of the name has returned true and the name has no row.
Removed(name) ==
    /\ \E t \in Tasks : /\ task[t].op = "remove_profile" /\ task[t].name = name
                        /\ task[t].pc = "idle" /\ task[t].ret = "true"
    /\ GetProfile(name) = {}

\* C8: once remove_profile of a known name has returned true, a key resolution for
\* that name gets no key from the cache and fails with NotFound.
C8_RemovedProfileNotFound ==
    [][\A s \in Sessions :
        Removed(sess[s].profile)
        => /\ Starts(s) => sess'[s].pc = "read"
           /\ (sess[s].pc = "read" /\ Steps(s))
                => sess'[s].result = "NotFound"]_vars

\* C9: remove_profile of a name without a profile row returns false and leaves
\* the profiles, config, items and items_tags tables as they were.
C9_RemoveUnknownProfile ==
    [][\A t \in Tasks :
        (/\ task[t].pc = "count" /\ task'[t] # task[t]
         /\ GetProfileCountForName(task[t].name) = 0)
        => /\ task'[t].pc = "idle"
           /\ task'[t].ret = "false"
           /\ profiles' = profiles /\ config' = config
           /\ items' = items /\ items_tags' = items_tags]_vars

\* C9's case: a remove_profile has found no row of its name.
C9_Witness ==
    \E t \in Tasks : task[t].op = "remove_profile" /\ task[t].ret = "false"

\* C10: create_profile of a name that a persisted profile has is refused with an
\* error at its INSERT_PROFILE: the profiles table and the key cache are as
\* before, and the operation ends there.
C10_CreateDuplicateRejected ==
    [][\A t \in Tasks :
        (/\ task[t].pc = "insert" /\ task'[t] # task[t]
         /\ ProfileNameTaken(task[t].name))
        => /\ task'[t].pc = "idle"
           /\ task'[t].ret = "Backend"
           /\ profiles' = profiles
           /\ key_cache' = key_cache]_vars

\* C10's case: a create_profile has been refused.
C10_Witness ==
    \E t \in Tasks : task[t].op = "create_profile" /\ task[t].ret = "Backend"

\* C12: a key resolution for a profile name that has no row and no cache entry
\* fails with NotFound, adds nothing to the key cache and leaves the session
\* open for a later call.
C12_UnknownProfileNotFound ==
    [][\A s \in Sessions :
        (/\ sess[s].pc = "read" /\ Steps(s)
         /\ GetProfile(sess[s].profile) = {}
         /\ get_profile(key_cache, sess[s].profile) = <<>>)
        => /\ sess'[s].result = "NotFound"
           /\ sess'[s].pc = "idle"
           /\ sess'[s].state = "open"
           /\ key_cache' = key_cache]_vars

\* C21: every entry name -> (id, key) of the key cache matches a profile row
\* that is persisted: a row of that name and that id, whose encrypted key wraps
\* that key.
C21_CacheMatchesProfiles ==
    \A name \in DOMAIN key_cache.profile_info :
        \E row \in profiles :
            /\ row.name = name
            /\ row.id = key_cache.profile_info[name].id
            /\ row.profile_key.pk = key_cache.profile_info[name].key

----------------------------------------------------------------------------
\* rekey on a failing storage (SpecRekey).

\* C17: the config 'key' row is written by a rekey only once every profile row
\* is wrapped under the new store key, with the Ok of that rekey; a rekey that
\* ends with an error leaves the config table as it was.
C17_ConfigKeyWrittenLast ==
    [][/\ config'.key # config.key
          => \E t \in Tasks :
                /\ task[t].op = "rekey" /\ task[t].pc = "loop"
                /\ task'[t].pc = "idle" /\ task'[t].ret = "Ok"
                /\ config'.key = task[t].store_key
                /\ profiles' = profiles
                /\ \A row \in profiles : row.profile_key.sk = task[t].store_key
       /\ \A t \in Tasks :
            (/\ task'[t] # task[t] /\ task'[t].op = "rekey"
             /\ task'[t].pc = "idle" /\ task'[t].ret # "Ok")
            => config' = config]_vars

\* Some profile rows are wrapped under the store key of config, others not.
PartlyRotated ==
    /\ \E row \in profiles : row.profile_key.sk # config.key
    /\ \E row \in profiles : row.profile_key.sk = config.key

\* A rekey has ended on a failure of the storage in its loop.
RekeyFailedMidLoop ==
    \E t \in Tasks : task[t].op = "rekey" /\ task[t].pc = "idle" /\ task[t].ret = "Backend"

\* C17's case: a rekey has failed in its loop, past the rewriting of a row, and
\* the config table still names the store key the cache holds.
C17_Witness ==
    /\ RekeyFailedMidLoop
    /\ PartlyRotated
    /\ config.key = key_cache.store_key

\* C18: after a rekey failed in its loop, a turn of a later rekey on the partly
\* rotated rows does not fail to unwrap a row, and the later rekey, when it ends
\* with Ok, leaves every profile row wrapped under the store key of config.
C18_FailedRekeyRetryable ==
    [][\A t \in Tasks :
        (RekeyFailedMidLoop /\ task[t].pc = "loop" /\ task'[t] # task[t])
        => /\ PartlyRotated => task'[t].ret # "Crypto"
           /\ task'[t].ret = "Ok"
                => \A row \in profiles' : row.profile_key.sk = config'.key]_vars

----------------------------------------------------------------------------
\* Sessions (SpecSessions).

\* C14: a transactional session is refused with Unsupported, no session made and
\* no connection taken from the pool; any other yields a session that holds one
\* connection and is bound to the profile given, the active profile if none is.
C14_TransactionalRejected ==
    [][\A s \in Sessions, p \in ProfileInputs, t \in BOOLEAN :
        (Session(s, p, t) /\ Steps(s))
        => IF t
           THEN /\ sess'[s].result = "Unsupported"
                /\ sess'[s].state = "none"
                /\ ~sess'[s].connection
                /\ pool' = pool
           ELSE /\ sess'[s].state = "open"
                /\ sess'[s].connection
                /\ pool' = pool - 1
                /\ sess'[s].profile = IF p = <<>> THEN active_profile ELSE p[1]]_vars

\* C14's case: one session was refused, another was made for a given profile,
\* and one connection is out of the pool.
C14_Witness ==
    \E s \in Sessions, s2 \in Sessions :
        /\ sess[s].state = "none" /\ sess[s].result = "Unsupported"
        /\ sess[s2].state = "open" /\ sess[s2].profile \in {p[1] : p \in ProfileInputs \ {<<>>}}
        /\ pool = PoolSize - 1

\* close has returned on session s.
Closed(s) == sess[s].op = "Close" /\ sess[s].pc = "idle"

\* C15: a close that was called, with either commit, completes, and the
\* session's connection is then back in the pool.
C15_CloseCompletes ==
    \A s \in Sessions :
        (sess[s].pc = "close") ~> (Closed(s) /\ ~sess[s].connection)

----------------------------------------------------------------------------
\* list_profiles (SpecList).

\* C11: list_profiles returns the names of all the profiles of the table, each
\* once, whatever their number.
C11_ListProfilesReturnsAll ==
    [][\A t \in Tasks :
        (task[t].pc = "names" /\ task'[t] # task[t])
        => LET names == task'[t].names IN
           /\ task'[t].ret = "Ok"
           /\ Len(names) = Cardinality(profiles)
           /\ {names[i] : i \in DOMAIN names} = {r.name : r \in profiles}]_vars

====
